---- MODULE Spec2Model ----
(***************************************************************************)
(* The A/B testing engine of packages/ai-service                           *)
(* (app/services/ab_testing.py, app/api/experiments.py) as a state         *)
(* machine.                                                                *)
(*                                                                         *)
(* Spec      the service driven by one caller at a time: every method of   *)
(*           ABTestingService is one atomic action.                        *)
(* SpecConc  several callers inside get_variant / record_conversion at     *)
(*           once, interleaved at each read and write of the shared maps   *)
(*           and counters (the service takes no lock).                     *)
(* SpecResults  get_experiment_results applied to snapshots of the         *)
(*           counters of a started two-variant experiment.                 *)
(*                                                                         *)
(* Numbers.  Weights are rationals: an input weight is an integer number   *)
(* of weight units, a stored (normalised) weight is the pair               *)
(* [num, den] = input weight / sum of input weights.  random.random() and  *)
(* sample_rate are multiples of 1/Grid.  datetime.utcnow() is a logical    *)
(* clock that has advanced by one at every reading.  Conversion rates and  *)
(* lifts are rationals in lowest terms; the z-score is compared through    *)
(* its square, a quotient of two naturals; the confidence is rounded down  *)
(* to a whole percent.                                                     *)
(***************************************************************************)
EXTENDS Integers, Sequences, FiniteSets, TLC

VARIABLES
    enabled,           \* ABTestingService.enabled
    sample_rate,       \* ABTestingService.sample_rate, in units of 1/Grid
    experiments,       \* ABTestingService._experiments: id -> Experiment
    user_assignments,  \* ABTestingService._user_assignments: user -> (id -> variant name)
    now,               \* the last value datetime.utcnow() returned
    last,              \* the last completed call: operation, arguments, result
    procs              \* SpecConc: the callers inside a service method

vars == <<enabled, sample_rate, experiments, user_assignments, now, last, procs>>

----------------------------------------------------------------------------
\* Bounds of the model

MaxClock == 3      \* utcnow() is read at most MaxClock times
MaxConv == 2       \* a conversions counter is driven up to MaxConv
Grid == 4          \* random.random() and sample_rate are multiples of 1/Grid
NumProcs == 2      \* concurrent callers in SpecConc

----------------------------------------------------------------------------
\* Identifiers and inputs

ExpIds == {"e1"}

\* an experiment id that no create_experiment call ever registers
UnknownIds == {"e0"}
Users == {"user_2", "user_4"}
Procs == 1..NumProcs

\* int(md5(f"{user_id}:{experiment.id}").hexdigest(), 16) % 10000, computed
\* with hashlib for the identifiers above.
HashBuckets == 10000

hash_bucket(user_id, experiment_id) ==
    CASE user_id = "user_2" /\ experiment_id = "e1" -> 37
      [] user_id = "user_4" /\ experiment_id = "e1" -> 5545

\* The variant lists handed to create_experiment: name, input weight (in
\* weight units) and config payload of each variant.
VariantLists ==
    { << [name |-> "control", weight |-> 1, config |-> "c0"],
         [name |-> "treatment", weight |-> 1, config |-> "c1"] >>,
      << [name |-> "a", weight |-> 3, config |-> "c0"],
         [name |-> "b", weight |-> 1, config |-> "c1"] >> }

\* Variant lists the service method create_experiment is also handed (its
\* signature takes any list[dict]; CreateExperimentRequest, which holds a
\* list to min_length 2 and each weight to [0, 1], guards the HTTP endpoint
\* only): the empty list, one variant, a negative weight, weights that sum
\* to zero.
DegenerateLists ==
    { << >>,
      << [name |-> "a", weight |-> 1, config |-> "c0"] >>,
      << [name |-> "a", weight |-> 2, config |-> "c0"],
         [name |-> "b", weight |-> -1, config |-> "c1"] >>,
      << [name |-> "a", weight |-> 0, config |-> "c0"],
         [name |-> "b", weight |-> 0, config |-> "c1"] >> }

\* target_sample_size: int = 1000
DefaultTargetSampleSize == 1000

\* settings.ab_test_default_variant and the {} config returned with it
default_variant == "control"
EmptyConfig == "{}"

\* started_at / ended_at = None
None == 0

\* the values of settings.ab_test_sample_rate (ge 0.0, le 1.0) the service is
\* constructed with: 0.5, 0.0 and the default 1.0
SampleRates == <<Grid \div 2, 0, Grid>>

----------------------------------------------------------------------------
\* Helpers

RECURSIVE SumWeights(_, _)
SumWeights(variants, n) ==
    IF n = 0 THEN 0 ELSE variants[n].weight + SumWeights(variants, n - 1)

Registered(e) == e \in DOMAIN experiments

\* user_id in self._user_assignments and experiment_id in self._user_assignments[user_id]
HasAssignment(ua, u, e) == u \in DOMAIN ua /\ e \in DOMAIN ua[u]

\* index of the first variant named n, 0 when there is none
VariantIndex(variants, n) ==
    IF \E i \in 1..Len(variants) : variants[i].name = n
    THEN CHOOSE i \in 1..Len(variants) :
             /\ variants[i].name = n
             /\ \A j \in 1..(i - 1) : variants[j].name # n
    ELSE 0

\* The ExperimentResult field of a call record that returned none
NoResult ==
    [winner |-> "None", is_significant |-> FALSE, confidence |-> 0,
     lift |-> [num |-> 0, den |-> 1], compared |-> 0, variants |-> << >>,
     recommendation |-> [kind |-> "none", n |-> 0]]

\* The record of a completed call.  ret is the returned value ("True" /
\* "False", the variant name, or the exception or HTTP outcome), config the
\* returned variant config, gate what the sampling gate of get_variant did
\* ("none" when the call did not reach it), variants the variant list handed
\* to create_experiment, result the ExperimentResult returned.
NoCall ==
    [op |-> "none", exp |-> "", user |-> "", ret |-> "", config |-> "",
     gate |-> "none", variants |-> << >>, result |-> NoResult]

Call(op, e, u, ret) ==
    [op |-> op, exp |-> e, user |-> u, ret |-> ret, config |-> "",
     gate |-> "none", variants |-> << >>, result |-> NoResult]

\* exps with exps[e] set to x (self._experiments[e] = x)
PutExperiment(exps, e, x) ==
    [k \in (DOMAIN exps) \cup {e} |-> IF k = e THEN x ELSE exps[k]]

----------------------------------------------------------------------------
\* create_experiment

NewVariant(v, total_weight) ==
    [name |-> v.name,
     weight |-> [num |-> v.weight, den |-> total_weight],
     config |-> v.config,
     impressions |-> 0,
     conversions |-> 0]

NewExperiment(experiment_id, variants, t) ==
    [id |-> experiment_id,
     variants |-> [i \in 1..Len(variants) |->
                      NewVariant(variants[i], SumWeights(variants, Len(variants)))],
     target_sample_size |-> DefaultTargetSampleSize,
     status |-> "draft",
     created_at |-> t,
     started_at |-> None,
     ended_at |-> None]

create_experiment(e, variants) ==
    IF Len(variants) > 0 /\ SumWeights(variants, Len(variants)) = 0
    THEN \* v.get("weight", 1.0) / total_weight raises ZeroDivisionError
         /\ last' = [Call("create_experiment", e, "", "ZeroDivisionError")
                         EXCEPT !.variants = variants]
         /\ UNCHANGED <<enabled, sample_rate, experiments, user_assignments, now, procs>>
    ELSE /\ now < MaxClock
         /\ now' = now + 1
         /\ experiments' = PutExperiment(experiments, e, NewExperiment(e, variants, now + 1))
         /\ last' = [Call("create_experiment", e, "", "Experiment")
                         EXCEPT !.variants = variants]
         /\ UNCHANGED <<enabled, sample_rate, user_assignments, procs>>

----------------------------------------------------------------------------
\* start_experiment, stop_experiment, delete_experiment

Started(experiment, t) ==
    [experiment EXCEPT !.status = "running", !.started_at = t]

start_experiment(e) ==
    IF ~Registered(e)
    THEN /\ last' = Call("start_experiment", e, "", "False")
         /\ UNCHANGED <<enabled, sample_rate, experiments, user_assignments, now, procs>>
    ELSE /\ now < MaxClock
         /\ now' = now + 1
         /\ experiments' = [experiments EXCEPT ![e] = Started(@, now + 1)]
         /\ last' = Call("start_experiment", e, "", "True")
         /\ UNCHANGED <<enabled, sample_rate, user_assignments, procs>>

\* POST /experiments/{experiment_id}/start
api_start_experiment(e) ==
    IF ~Registered(e)
    THEN /\ last' = Call("api_start_experiment", e, "", "404")
         /\ UNCHANGED <<enabled, sample_rate, experiments, user_assignments, now, procs>>
    ELSE IF experiments[e].status = "running"
    THEN /\ last' = Call("api_start_experiment", e, "", "already running")
         /\ UNCHANGED <<enabled, sample_rate, experiments, user_assignments, now, procs>>
    ELSE /\ now < MaxClock
         /\ now' = now + 1
         /\ experiments' = [experiments EXCEPT ![e] = Started(@, now + 1)]
         /\ last' = Call("api_start_experiment", e, "", "started")
         /\ UNCHANGED <<enabled, sample_rate, user_assignments, procs>>

\* Stopped with a fault: stopping an experiment that never ran cancels it
Stopped_or_cancelled(experiment, t) ==
    [experiment EXCEPT
        !.status = IF experiment.started_at = None THEN "cancelled" ELSE "completed",
        !.ended_at = t]

\* Stopped with a fault: stop forgets ended_at
Stopped_no_ended_at(experiment, t) ==
    [experiment EXCEPT !.status = "completed"]

Stopped(experiment, t) ==
    [experiment EXCEPT !.status = "completed", !.ended_at = t]

stop_experiment(e) ==
    IF ~Registered(e)
    THEN /\ last' = Call("stop_experiment", e, "", "False")
         /\ UNCHANGED <<enabled, sample_rate, experiments, user_assignments, now, procs>>
    ELSE /\ now < MaxClock
         /\ now' = now + 1
         /\ experiments' = [experiments EXCEPT ![e] = Stopped(@, now + 1)]
         /\ last' = Call("stop_experiment", e, "", "True")
         /\ UNCHANGED <<enabled, sample_rate, user_assignments, procs>>

\* PopExperiment with a fault: the assignments of the deleted experiment stay
PopExperiment_keeps_assignments(ua, e) == ua

\* user_assignments.pop(experiment_id, None) for every user
PopExperiment(ua, e) ==
    [u \in DOMAIN ua |-> [k \in (DOMAIN ua[u]) \ {e} |-> ua[u][k]]]

delete_experiment(e) ==
    IF Registered(e)
    THEN /\ experiments' = [k \in (DOMAIN experiments) \ {e} |-> experiments[k]]
         /\ user_assignments' = PopExperiment(user_assignments, e)
         /\ last' = Call("delete_experiment", e, "", "True")
         /\ UNCHANGED <<enabled, sample_rate, now, procs>>
    ELSE /\ last' = Call("delete_experiment", e, "", "False")
         /\ UNCHANGED <<enabled, sample_rate, experiments, user_assignments, now, procs>>

----------------------------------------------------------------------------
\* get_variant

RECURSIVE CumWeight(_, _)
\* cumulative += variant.weight, up to and including variant i (numerator
\* over the common denominator)
CumWeight(variants, i) ==
    IF i = 0 THEN 0 ELSE variants[i].weight.num + CumWeight(variants, i - 1)

\* normalized <= cumulative, with normalized = bucket / 10000 and
\* cumulative = cum / den
BucketLeq(bucket, cum, den) ==
    IF den > 0 THEN bucket * den <= cum * HashBuckets
               ELSE bucket * den >= cum * HashBuckets

\* lines 245-253: the index of the variant the loop over the cumulative
\* weights returns for hash_value % 10000 = bucket
variant_at_bucket(variants, bucket) ==
    LET hit(i) == BucketLeq(bucket, CumWeight(variants, i), variants[i].weight.den)
    IN  IF \E i \in 1..Len(variants) : hit(i)
        THEN CHOOSE i \in 1..Len(variants) :
                 hit(i) /\ \A j \in 1..(i - 1) : ~hit(j)
        ELSE Len(variants)

\* assign_variant with a fault: the variant shown least so far, the first
\* of them in list order
assign_variant_least_shown(experiment, user_id) ==
    LET variants == experiment.variants
    IN  CHOOSE i \in 1..Len(variants) :
            /\ \A j \in 1..Len(variants) :
                   variants[i].impressions <= variants[j].impressions
            /\ \A j \in 1..(i - 1) :
                   variants[j].impressions > variants[i].impressions

\* the index of the variant _assign_variant returns
assign_variant(experiment, user_id) ==
    variant_at_bucket(experiment.variants, hash_bucket(user_id, experiment.id))

\* is_running with a fault: the status test lets every started experiment through
is_running_not_draft(experiment) == experiment.status # "draft"

\* if experiment.status != ExperimentStatus.RUNNING: return the default
is_running(experiment) == experiment.status = "running"

\* the stored variant of (u, e) when get_variant returns it at lines 212-217:
\* its index in exps[e].variants, 0 when there is no assignment or no
\* variant of that name
existing_assignment(exps, ua, e, u) ==
    IF HasAssignment(ua, u, e) THEN VariantIndex(exps[e].variants, ua[u][e]) ELSE 0

\* if random.random() > self.sample_rate: excluded
gate_excludes(r, rate) == r > rate

\* self._user_assignments[user_id][experiment_id] = name
StoreAssignment(ua, u, e, name) ==
    [k \in (DOMAIN ua) \cup {u} |->
        IF k = u
        THEN [x \in (IF u \in DOMAIN ua THEN DOMAIN ua[u] ELSE {}) \cup {e} |->
                 IF x = e THEN name ELSE ua[u][x]]
        ELSE ua[k]]

\* variant.impressions += 1
record_impression(exps, e, i) ==
    [exps EXCEPT ![e].variants[i].impressions = @ + 1]

\* One whole get_variant(e, u) call with random.random() = r / Grid: what it
\* returns and the maps it leaves.
GetVariantResult(en, rate, exps, ua, e, u, r) ==
    LET unchanged(name, config, gate) ==
            [ret |-> name, config |-> config, gate |-> gate,
             experiments |-> exps, user_assignments |-> ua]
    IN  IF ~en THEN unchanged(default_variant, EmptyConfig, "none")
        ELSE IF e \notin DOMAIN exps THEN unchanged(default_variant, EmptyConfig, "none")
        ELSE IF ~is_running(exps[e]) THEN unchanged(default_variant, EmptyConfig, "none")
        ELSE IF existing_assignment(exps, ua, e, u) # 0
        THEN LET v == exps[e].variants[existing_assignment(exps, ua, e, u)]
             IN  unchanged(v.name, v.config, "none")
        ELSE IF gate_excludes(r, rate) THEN unchanged(default_variant, EmptyConfig, "excluded")
        ELSE IF Len(exps[e].variants) = 0
        THEN \* _assign_variant: return experiment.variants[-1] raises IndexError
             unchanged("IndexError", "", "included")
        ELSE LET i == assign_variant(exps[e], u)
                 v == exps[e].variants[i]
             IN  [ret |-> v.name, config |-> v.config, gate |-> "included",
                  experiments |-> record_impression(exps, e, i),
                  user_assignments |-> StoreAssignment(ua, u, e, v.name)]

get_variant(e, u) ==
    \E r \in 0..(Grid - 1) :
        LET res == GetVariantResult(enabled, sample_rate, experiments,
                                    user_assignments, e, u, r)
        IN  /\ experiments' = res.experiments
            /\ user_assignments' = res.user_assignments
            /\ last' = [Call("get_variant", e, u, res.ret)
                            EXCEPT !.config = res.config, !.gate = res.gate]
            /\ UNCHANGED <<enabled, sample_rate, now, procs>>

----------------------------------------------------------------------------
\* record_conversion

\* variant.conversions += 1
record_one_conversion(exps, e, i) ==
    [exps EXCEPT ![e].variants[i].conversions = @ + 1]

\* conversion_target with a fault: a subject without an assignment converts
\* on the control variant
conversion_target_or_control(exps, ua, e, u) ==
    IF e \notin DOMAIN exps THEN 0
    ELSE IF ~HasAssignment(ua, u, e)
    THEN IF Len(exps[e].variants) > 0 THEN 1 ELSE 0
    ELSE VariantIndex(exps[e].variants, ua[u][e])

\* the index of the variant whose conversions counter record_conversion(e, u)
\* increments, 0 when it returns False
conversion_target(exps, ua, e, u) ==
    IF e \notin DOMAIN exps THEN 0
    ELSE IF u \notin DOMAIN ua THEN 0
    ELSE IF e \notin DOMAIN ua[u] THEN 0
    ELSE VariantIndex(exps[e].variants, ua[u][e])

record_conversion(e, u) ==
    LET i == conversion_target(experiments, user_assignments, e, u)
    IN  IF i = 0
        THEN /\ last' = Call("record_conversion", e, u, "False")
             /\ UNCHANGED <<enabled, sample_rate, experiments, user_assignments, now, procs>>
        ELSE /\ experiments[e].variants[i].conversions < MaxConv
             /\ experiments' = record_one_conversion(experiments, e, i)
             /\ last' = Call("record_conversion", e, u, "True")
             /\ UNCHANGED <<enabled, sample_rate, user_assignments, now, procs>>

----------------------------------------------------------------------------
\* get_experiment_results.  The floats of the code are exact rationals
\* here: a rational is [num, den] in lowest terms with den > 0.

Abs(x) == IF x < 0 THEN -x ELSE x

RECURSIVE GCD(_, _)
GCD(a, b) == IF b = 0 THEN a ELSE GCD(b, a % b)

\* n / d for d > 0
Frac(n, d) ==
    LET g == GCD(Abs(n), d)
    IN  [num |-> n \div g, den |-> d \div g]

RECURSIVE FracLess(_, _, _, _)
\* a / b < c / d for b > 0 and d > 0, by the integer parts and then the
\* reciprocals of the fractional parts (no product is formed)
FracLess(a, b, c, d) ==
    IF a \div b # c \div d THEN a \div b < c \div d
    ELSE IF c % d = 0 THEN FALSE
    ELSE IF a % b = 0 THEN TRUE
    ELSE FracLess(d, c % d, b, a % b)

\* Naturals beyond the machine word, for the products of the z-test: the
\* sequence of base-1000 digits, least significant first.
RECURSIVE BigTimes(_, _, _)
\* big * k + carry
BigTimes(big, k, carry) ==
    IF Len(big) = 0
    THEN IF carry = 0 THEN << >>
         ELSE <<carry % 1000>> \o BigTimes(<< >>, k, carry \div 1000)
    ELSE <<(Head(big) * k + carry) % 1000>>
             \o BigTimes(Tail(big), k, (Head(big) * k + carry) \div 1000)

RECURSIVE BigProduct(_)
\* the product of a sequence of naturals
BigProduct(factors) ==
    IF Len(factors) = 0 THEN <<1>>
    ELSE BigTimes(BigProduct(Tail(factors)), Head(factors), 0)

RECURSIVE BigStrip(_)
\* big without its leading zero digits
BigStrip(big) ==
    IF Len(big) > 0 /\ big[Len(big)] = 0
    THEN BigStrip(SubSeq(big, 1, Len(big) - 1))
    ELSE big

RECURSIVE BigLess(_, _)
\* a < b
BigLess(a, b) ==
    LET x == BigStrip(a)
        y == BigStrip(b)
    IN  IF Len(x) # Len(y) THEN Len(x) < Len(y)
        ELSE IF Len(x) = 0 THEN FALSE
        ELSE IF x[Len(x)] # y[Len(y)] THEN x[Len(x)] < y[Len(y)]
        ELSE BigLess(SubSeq(x, 1, Len(x) - 1), SubSeq(y, 1, Len(y) - 1))

\* Variant.conversion_rate
conversion_rate(variant) ==
    IF variant.impressions = 0 THEN Frac(0, 1)
    ELSE Frac(variant.conversions, variant.impressions)

RECURSIVE SumImpressions(_, _)
SumImpressions(variants, n) ==
    IF n = 0 THEN 0 ELSE variants[n].impressions + SumImpressions(variants, n - 1)

\* Experiment.total_impressions
total_impressions(experiment) ==
    SumImpressions(experiment.variants, Len(experiment.variants))

\* Experiment.is_significant: the experiment has reached its target size
experiment_is_significant(experiment) ==
    total_impressions(experiment) >= experiment.target_sample_size

\* (variant.conversion_rate - control.conversion_rate)
\*     / control.conversion_rate * 100, for control.conversion_rate > 0
lift_vs_control(variant, control) ==
    LET rv == conversion_rate(variant)
        rc == conversion_rate(control)
    IN  Frac((rv.num * rc.den - rc.num * rv.den) * 100, rc.num * rv.den)

\* variant_lift with a fault: the difference of the two rates in percentage
\* points, whatever the control's rate
variant_lift_points(variant, control) ==
    LET rv == conversion_rate(variant)
        rc == conversion_rate(control)
    IN  Frac((rv.num * rc.den - rc.num * rv.den) * 100, rc.den * rv.den)

\* result["lift"] of the per-variant breakdown
variant_lift(variant, control) ==
    IF conversion_rate(control).num > 0 THEN lift_vs_control(variant, control)
    ELSE Frac(0, 1)

RECURSIVE best_variant(_, _, _)
\* the loop over experiment.variants from variant i on: best is
\* [index, lift] of best_variant and best_lift so far.  variant != control
\* is the field-wise comparison of the Variant dataclass.
best_variant(variants, i, best) ==
    IF i > Len(variants) THEN best
    ELSE LET control == variants[1]
             lift == lift_vs_control(variants[i], control)
         IN  IF /\ conversion_rate(control).num > 0
                /\ FracLess(best.lift.num, best.lift.den, lift.num, lift.den)
                /\ variants[i] # control
             THEN best_variant(variants, i + 1, [index |-> i, lift |-> lift])
             ELSE best_variant(variants, i + 1, best)

\* if n1 < 100 or n2 < 100
SignificanceFloor == 100

\* below_floor with a fault: one arm above the floor is enough
below_floor_both(n1, n2) == n1 < SignificanceFloor /\ n2 < SignificanceFloor

below_floor(n1, n2) == n1 < SignificanceFloor \/ n2 < SignificanceFloor

\* z * z for z = abs(p2 - p1) / sqrt(p_pool * (1 - p_pool) * (1/n1 + 1/n2)),
\* when n1, n2 > 0 and 0 < p_pool < 1, as the quotient num / den of two
\* naturals: with d = |c2 * n1 - c1 * n2|, n = n1 + n2 and c = c1 + c2,
\*   abs(p2 - p1)^2 = d^2 / (n1 * n2)^2,   p_pool * (1 - p_pool) = c * (n - c) / n^2,
\*   1/n1 + 1/n2 = n / (n1 * n2),   so   z^2 = d^2 * n / (n1 * n2 * c * (n - c)).
z_squared(control, treatment) ==
    LET n1 == control.impressions
        n2 == treatment.impressions
        c1 == control.conversions
        c2 == treatment.conversions
        d == Abs(c2 * n1 - c1 * n2)
    IN  [num |-> BigProduct(<<d, d, n1 + n2>>),
         den |-> BigProduct(<<n1, n2, c1 + c2, n1 + n2 - (c1 + c2)>>)]

\* z >= k / m, for naturals k and m > 0
z_at_least(z2, k, m) ==
    ~BigLess(BigTimes(BigTimes(z2.num, m, 0), m, 0),
             BigTimes(BigTimes(z2.den, k, 0), k, 0))

\* is_significant = z >= 1.96
ZThreshold == [num |-> 49, den |-> 25]

\* reaches_threshold with a fault: the 99% threshold z >= 2.58
reaches_threshold_99(z2) == z_at_least(z2, 129, 50)

reaches_threshold(z2) == z_at_least(z2, ZThreshold.num, ZThreshold.den)

\* min(99.9, 50 + z * 25), rounded down to a whole percent: 50 + k for the
\* largest k in 0..49 with k / 25 <= z
confidence_of(z2) ==
    50 + CHOOSE k \in 0..49 :
             /\ z_at_least(z2, k, 25)
             /\ k < 49 => ~z_at_least(z2, k + 1, 25)

\* _calculate_significance: error is the exception it raises ("" for none)
calculate_significance(control, treatment) ==
    LET n1 == control.impressions
        n2 == treatment.impressions
        conversions == control.conversions + treatment.conversions
        not_significant == [error |-> "", is_significant |-> FALSE, confidence |-> 0]
    IN  IF below_floor(n1, n2) THEN not_significant
        ELSE IF conversions = 0 \/ conversions = n1 + n2
        THEN \* p_pool == 0 or p_pool == 1
             not_significant
        ELSE IF conversions > n1 + n2
        THEN \* p_pool > 1: math.sqrt of a negative number
             [error |-> "ValueError", is_significant |-> FALSE, confidence |-> 0]
        ELSE LET z2 == z_squared(control, treatment)
             IN  [error |-> "",
                  is_significant |-> reaches_threshold(z2),
                  confidence |-> confidence_of(z2)]

\* if is_significant and best_lift > 5
MinimumLift == 5

\* decide with a fault: a non-control winner is named only once the target
\* size is reached
decide_after_target(experiment, best, sig) ==
    IF /\ sig.is_significant
       /\ best.lift.num > MinimumLift * best.lift.den
       /\ experiment_is_significant(experiment)
    THEN [winner |-> experiment.variants[best.index].name,
          recommendation |-> [kind |-> "implement", n |-> 0]]
    ELSE IF experiment_is_significant(experiment) /\ best.lift.num <= 0
    THEN [winner |-> experiment.variants[1].name,
          recommendation |-> [kind |-> "keep control", n |-> 0]]
    ELSE IF ~experiment_is_significant(experiment)
    THEN [winner |-> "None",
          recommendation |-> [kind |-> "need more impressions",
                              n |-> experiment.target_sample_size
                                        - total_impressions(experiment)]]
    ELSE [winner |-> "None",
          recommendation |-> [kind |-> "continue collecting", n |-> 0]]

\* decide with a fault: the impressions still needed are not reduced by the
\* impressions already counted
decide_needs_whole_target(experiment, best, sig) ==
    IF sig.is_significant /\ best.lift.num > MinimumLift * best.lift.den
    THEN [winner |-> experiment.variants[best.index].name,
          recommendation |-> [kind |-> "implement", n |-> 0]]
    ELSE IF experiment_is_significant(experiment) /\ best.lift.num <= 0
    THEN [winner |-> experiment.variants[1].name,
          recommendation |-> [kind |-> "keep control", n |-> 0]]
    ELSE IF ~experiment_is_significant(experiment)
    THEN [winner |-> "None",
          recommendation |-> [kind |-> "need more impressions",
                              n |-> experiment.target_sample_size]]
    ELSE [winner |-> "None",
          recommendation |-> [kind |-> "continue collecting", n |-> 0]]

\* The winner and the recommendation (its kind and, for "Need n more
\* impressions", n) that get_experiment_results derives.
decide(experiment, best, sig) ==
    IF sig.is_significant /\ best.lift.num > MinimumLift * best.lift.den
    THEN [winner |-> experiment.variants[best.index].name,
          recommendation |-> [kind |-> "implement", n |-> 0]]
    ELSE IF experiment_is_significant(experiment) /\ best.lift.num <= 0
    THEN [winner |-> experiment.variants[1].name,
          recommendation |-> [kind |-> "keep control", n |-> 0]]
    ELSE IF ~experiment_is_significant(experiment)
    THEN [winner |-> "None",
          recommendation |-> [kind |-> "need more impressions",
                              n |-> experiment.target_sample_size
                                        - total_impressions(experiment)]]
    ELSE [winner |-> "None",
          recommendation |-> [kind |-> "continue collecting", n |-> 0]]

\* variant_results
variant_results(variants) ==
    [i \in 1..Len(variants) |->
        [name |-> variants[i].name,
         impressions |-> variants[i].impressions,
         conversions |-> variants[i].conversions,
         conversion_rate |-> conversion_rate(variants[i]),
         lift |-> variant_lift(variants[i], variants[1])]]

\* What get_experiment_results(e) returns: ret is "None" for an unknown id,
\* the exception raised, or "ExperimentResult" with the result.
ExperimentResults(exps, e) ==
    IF e \notin DOMAIN exps THEN [ret |-> "None", result |-> NoResult]
    ELSE IF Len(exps[e].variants) = 0
    THEN \* control = experiment.variants[0] raises IndexError
         [ret |-> "IndexError", result |-> NoResult]
    ELSE LET variants == exps[e].variants
             best == best_variant(variants, 1, [index |-> 1, lift |-> Frac(0, 1)])
             sig == calculate_significance(variants[1], variants[best.index])
             decision == decide(exps[e], best, sig)
         IN  IF sig.error # "" THEN [ret |-> sig.error, result |-> NoResult]
             ELSE [ret |-> "ExperimentResult",
                   result |-> [winner |-> decision.winner,
                               is_significant |-> sig.is_significant,
                               confidence |-> sig.confidence,
                               lift |-> best.lift,
                               compared |-> best.index,
                               variants |-> variant_results(variants),
                               recommendation |-> decision.recommendation]]

\* get_experiment_results with a fault: reading the results of a Running
\* experiment closes it
get_experiment_results_closing(e) ==
    LET res == ExperimentResults(experiments, e)
    IN  /\ last' = [Call("get_experiment_results", e, "", res.ret)
                        EXCEPT !.result = res.result]
        /\ experiments' =
               IF e \in DOMAIN experiments /\ experiments[e].status = "running"
               THEN [experiments EXCEPT ![e].status = "completed"]
               ELSE experiments
        /\ UNCHANGED <<enabled, sample_rate, user_assignments, now, procs>>

get_experiment_results(e) ==
    LET res == ExperimentResults(experiments, e)
    IN  /\ last' = [Call("get_experiment_results", e, "", res.ret)
                        EXCEPT !.result = res.result]
        /\ UNCHANGED <<enabled, sample_rate, experiments, user_assignments, now, procs>>

----------------------------------------------------------------------------
\* get_all_experiments

\* one dict of the list get_all_experiments returns
experiment_summary(experiment) ==
    [id |-> experiment.id,
     status |-> experiment.status,
     total_impressions |-> total_impressions(experiment),
     variants_count |-> Len(experiment.variants),
     is_significant |-> experiment_is_significant(experiment),
     created_at |-> experiment.created_at]

\* the list is kept as the map id -> dict
get_all_experiments ==
    /\ last' = [Call("get_all_experiments", "", "", "list")
                    EXCEPT !.result =
                        [summary |-> [e \in DOMAIN experiments |->
                                         experiment_summary(experiments[e])]]]
    /\ UNCHANGED <<enabled, sample_rate, experiments, user_assignments, now, procs>>

----------------------------------------------------------------------------
\* The service driven by one caller at a time

Init ==
    /\ enabled \in BOOLEAN
    /\ \E k \in DOMAIN SampleRates : sample_rate = SampleRates[k]
    /\ experiments = << >>
    /\ user_assignments = << >>
    /\ now = 0
    /\ last = NoCall
    /\ procs = << >>

Next ==
    \/ \E e \in ExpIds, variants \in VariantLists \cup DegenerateLists :
          create_experiment(e, variants)
    \/ \E e \in ExpIds \cup UnknownIds : start_experiment(e)
    \/ \E e \in ExpIds \cup UnknownIds : api_start_experiment(e)
    \/ \E e \in ExpIds \cup UnknownIds : stop_experiment(e)
    \/ \E e \in ExpIds \cup UnknownIds : delete_experiment(e)
    \/ \E e \in ExpIds \cup UnknownIds, u \in Users : get_variant(e, u)
    \/ \E e \in ExpIds \cup UnknownIds, u \in Users : record_conversion(e, u)
    \/ \E e \in ExpIds \cup UnknownIds : get_experiment_results(e)
    \/ get_all_experiments

Spec == Init /\ [][Next]_vars

----------------------------------------------------------------------------
\* The same service calls, one caller at a time, from the state in which e1
\* has been created (clock -1) and started (clock 0): the calls that follow
\* can create e1 again, start it again and stop it within MaxClock readings
\* of the clock.

InitStarted ==
    /\ enabled = TRUE
    /\ \E k \in DOMAIN SampleRates : sample_rate = SampleRates[k]
    /\ \E variants \in VariantLists :
          experiments = PutExperiment(<< >>, "e1",
                            Started(NewExperiment("e1", variants, -1), 0))
    /\ user_assignments = << >>
    /\ now = 0
    /\ last = NoCall
    /\ procs = << >>

NextStarted ==
    \/ \E e \in ExpIds, variants \in VariantLists : create_experiment(e, variants)
    \/ \E e \in ExpIds : start_experiment(e)
    \/ \E e \in ExpIds : stop_experiment(e)
    \/ \E e \in ExpIds, u \in Users : get_variant(e, u)
    \/ \E e \in ExpIds, u \in Users : record_conversion(e, u)

SpecStarted == InitStarted /\ [][NextStarted]_vars

----------------------------------------------------------------------------
\* Several callers inside get_variant / record_conversion at once.  Each
\* caller p runs one call; a step is one read or one write of the shared
\* maps and counters.  procs[p].variant is the caller's local reference to a
\* Variant (its index), procs[p].tmp the counter value its += has read,
\* procs[p].created whether it stored an assignment.

IdleProc ==
    [pc |-> "idle", op |-> "none", exp |-> "", user |-> "", variant |-> 0,
     tmp |-> 0, ret |-> "", created |-> FALSE]

Return(p, ret) ==
    procs' = [procs EXCEPT ![p].pc = "done", ![p].ret = ret]

call(p, op, e, u) ==
    /\ procs[p].pc = "idle"
    /\ procs' = [procs EXCEPT ![p] = [IdleProc EXCEPT
                     !.pc = IF op = "get_variant" THEN "gv_check" ELSE "rc_lookup",
                     !.op = op, !.exp = e, !.user = u]]
    /\ UNCHANGED <<enabled, sample_rate, experiments, user_assignments, now, last>>

\* lines 200-209: enabled, registered, running
gv_check(p) ==
    /\ procs[p].pc = "gv_check"
    /\ IF \/ ~enabled
          \/ procs[p].exp \notin DOMAIN experiments
          \/ ~is_running(experiments[procs[p].exp])
       THEN Return(p, default_variant)
       ELSE procs' = [procs EXCEPT ![p].pc = "gv_existing"]
    /\ UNCHANGED <<enabled, sample_rate, experiments, user_assignments, now, last>>

\* lines 211-217: the existing-assignment check
gv_existing(p) ==
    /\ procs[p].pc = "gv_existing"
    /\ LET i == existing_assignment(experiments, user_assignments,
                                    procs[p].exp, procs[p].user)
       IN  IF i # 0
           THEN Return(p, experiments[procs[p].exp].variants[i].name)
           ELSE procs' = [procs EXCEPT ![p].pc = "gv_gate"]
    /\ UNCHANGED <<enabled, sample_rate, experiments, user_assignments, now, last>>

\* lines 219-224: the sampling gate and _assign_variant
gv_gate(p) ==
    /\ procs[p].pc = "gv_gate"
    /\ \E r \in 0..(Grid - 1) :
          IF gate_excludes(r, sample_rate)
          THEN Return(p, default_variant)
          ELSE procs' = [procs EXCEPT
                   ![p].pc = "gv_store",
                   ![p].variant = assign_variant(experiments[procs[p].exp], procs[p].user)]
    /\ UNCHANGED <<enabled, sample_rate, experiments, user_assignments, now, last>>

\* lines 226-229: store the assignment
gv_store(p) ==
    /\ procs[p].pc = "gv_store"
    /\ user_assignments' =
           StoreAssignment(user_assignments, procs[p].user, procs[p].exp,
                           experiments[procs[p].exp].variants[procs[p].variant].name)
    /\ procs' = [procs EXCEPT ![p].pc = "gv_read", ![p].created = TRUE]
    /\ UNCHANGED <<enabled, sample_rate, experiments, now, last>>

\* line 232, variant.impressions += 1: the read
gv_read(p) ==
    /\ procs[p].pc = "gv_read"
    /\ procs' = [procs EXCEPT
           ![p].pc = "gv_write",
           ![p].tmp = experiments[procs[p].exp].variants[procs[p].variant].impressions]
    /\ UNCHANGED <<enabled, sample_rate, experiments, user_assignments, now, last>>

\* line 232, variant.impressions += 1: the write
gv_write(p) ==
    /\ procs[p].pc = "gv_write"
    /\ experiments' = [experiments EXCEPT
           ![procs[p].exp].variants[procs[p].variant].impressions = procs[p].tmp + 1]
    /\ Return(p, experiments[procs[p].exp].variants[procs[p].variant].name)
    /\ UNCHANGED <<enabled, sample_rate, user_assignments, now, last>>

\* lines 274-290: look the assignment up and find its variant
rc_lookup(p) ==
    /\ procs[p].pc = "rc_lookup"
    /\ LET i == conversion_target(experiments, user_assignments,
                                  procs[p].exp, procs[p].user)
       IN  IF i = 0
           THEN Return(p, "False")
           ELSE procs' = [procs EXCEPT ![p].pc = "rc_read", ![p].variant = i]
    /\ UNCHANGED <<enabled, sample_rate, experiments, user_assignments, now, last>>

\* line 291, variant.conversions += 1: the read
rc_read(p) ==
    /\ procs[p].pc = "rc_read"
    /\ procs' = [procs EXCEPT
           ![p].pc = "rc_write",
           ![p].tmp = experiments[procs[p].exp].variants[procs[p].variant].conversions]
    /\ UNCHANGED <<enabled, sample_rate, experiments, user_assignments, now, last>>

\* line 291, variant.conversions += 1: the write; line 292
rc_write(p) ==
    /\ procs[p].pc = "rc_write"
    /\ experiments' = [experiments EXCEPT
           ![procs[p].exp].variants[procs[p].variant].conversions = procs[p].tmp + 1]
    /\ Return(p, "True")
    /\ UNCHANGED <<enabled, sample_rate, user_assignments, now, last>>

RECURSIVE AssignAll(_, _, _)
\* the maps after one get_variant("e1", u) call for each u of S, none of
\* them excluded by the gate
AssignAll(exps, ua, S) ==
    IF S = {} THEN [experiments |-> exps, user_assignments |-> ua]
    ELSE LET u == CHOOSE x \in S : TRUE
             res == GetVariantResult(TRUE, Grid, exps, ua, "e1", u, 0)
         IN  AssignAll(res.experiments, res.user_assignments, S \ {u})

\* e1 was created and started and the users of S were assigned, one call
\* at a time; then the concurrent callers arrive.
InitConc ==
    /\ enabled = TRUE
    /\ sample_rate = Grid
    /\ now = 2
    /\ last = NoCall
    /\ procs = [p \in Procs |-> IdleProc]
    /\ \E variants \in VariantLists, S \in SUBSET Users :
          LET pre == AssignAll(
                  PutExperiment(<< >>, "e1", Started(NewExperiment("e1", variants, 1), 2)),
                  << >>, S)
          IN  /\ experiments = pre.experiments
              /\ user_assignments = pre.user_assignments

NextConc ==
    \E p \in Procs :
        \/ \E op \in {"get_variant", "record_conversion"}, e \in ExpIds, u \in Users :
              call(p, op, e, u)
        \/ gv_check(p)
        \/ gv_existing(p)
        \/ gv_gate(p)
        \/ gv_store(p)
        \/ gv_read(p)
        \/ gv_write(p)
        \/ rc_lookup(p)
        \/ rc_read(p)
        \/ rc_write(p)

SpecConc == InitConc /\ [][NextConc]_vars

-----------------------------------------------------------------------------
\* get_variant callers and delete_experiment callers at once.  A thread is
\* a record: pc its position, variant the Variant _assign_variant gave it
\* (its index), todo and size the state of the iterator over
\* self._user_assignments.values(), removed the Experiment object a del took
\* out of the registry (still referenced by the get_variant callers that
\* read it at line 207), orphan whether the thread counted an impression on
\* an Experiment that was no longer registered.

IdleThread ==
    [pc |-> "idle", op |-> "none", exp |-> "", user |-> "", variant |-> 0,
     ret |-> "", todo |-> {}, size |-> 0, removed |-> << >>, orphan |-> FALSE]

ThreadReturn(p, ret) ==
    procs' = [procs EXCEPT ![p].pc = "done", ![p].ret = ret]

\* the Experiment object the local variable experiment of thread p refers
\* to: the registered one, or the one a del removed
experiment_of(p) ==
    IF procs[p].exp \in DOMAIN experiments
    THEN experiments[procs[p].exp]
    ELSE LET q == CHOOSE q \in Procs :
                      procs[q].removed # << >> /\ procs[q].exp = procs[p].exp
         IN  procs[q].removed[1]

thread_call(p, op, e, u) ==
    /\ procs[p].pc = "idle"
    /\ procs' = [procs EXCEPT ![p] = [IdleThread EXCEPT
                     !.pc = IF op = "get_variant" THEN "gv_registered" ELSE "de_registered",
                     !.op = op, !.exp = e, !.user = u]]
    /\ UNCHANGED <<enabled, sample_rate, experiments, user_assignments, now, last>>

\* lines 200-205: enabled, experiment_id in self._experiments
gv_registered(p) ==
    /\ procs[p].pc = "gv_registered"
    /\ IF ~enabled \/ procs[p].exp \notin DOMAIN experiments
       THEN ThreadReturn(p, default_variant)
       ELSE procs' = [procs EXCEPT ![p].pc = "gv_experiment"]
    /\ UNCHANGED <<enabled, sample_rate, experiments, user_assignments, now, last>>

\* lines 207-209: experiment = self._experiments[experiment_id], status
gv_experiment(p) ==
    /\ procs[p].pc = "gv_experiment"
    /\ IF procs[p].exp \notin DOMAIN experiments
       THEN ThreadReturn(p, "KeyError")
       ELSE IF ~is_running(experiments[procs[p].exp])
       THEN ThreadReturn(p, default_variant)
       ELSE procs' = [procs EXCEPT ![p].pc = "gv_assigned"]
    /\ UNCHANGED <<enabled, sample_rate, experiments, user_assignments, now, last>>

\* lines 212-213: the two membership tests
gv_assigned(p) ==
    /\ procs[p].pc = "gv_assigned"
    /\ procs' = [procs EXCEPT ![p].pc =
                     IF HasAssignment(user_assignments, procs[p].user, procs[p].exp)
                     THEN "gv_stored_name" ELSE "gv_assign"]
    /\ UNCHANGED <<enabled, sample_rate, experiments, user_assignments, now, last>>

\* lines 214-217: read the stored name and look for its variant
gv_stored_name(p) ==
    /\ procs[p].pc = "gv_stored_name"
    /\ IF ~HasAssignment(user_assignments, procs[p].user, procs[p].exp)
       THEN ThreadReturn(p, "KeyError")
       ELSE LET n == user_assignments[procs[p].user][procs[p].exp]
            IN  IF VariantIndex(experiment_of(p).variants, n) # 0
                THEN ThreadReturn(p, n)
                ELSE procs' = [procs EXCEPT ![p].pc = "gv_assign"]
    /\ UNCHANGED <<enabled, sample_rate, experiments, user_assignments, now, last>>

\* lines 219-224: the sampling gate and _assign_variant
gv_assign(p) ==
    /\ procs[p].pc = "gv_assign"
    /\ \E r \in 0..(Grid - 1) :
          IF gate_excludes(r, sample_rate)
          THEN ThreadReturn(p, default_variant)
          ELSE procs' = [procs EXCEPT
                   ![p].pc = "gv_new_user",
                   ![p].variant = assign_variant(experiment_of(p), procs[p].user)]
    /\ UNCHANGED <<enabled, sample_rate, experiments, user_assignments, now, last>>

\* lines 227-228: a subject without assignments gets an empty dict
gv_new_user(p) ==
    /\ procs[p].pc = "gv_new_user"
    /\ user_assignments' =
           [k \in (DOMAIN user_assignments) \cup {procs[p].user} |->
               IF k \in DOMAIN user_assignments THEN user_assignments[k] ELSE << >>]
    /\ procs' = [procs EXCEPT ![p].pc = "gv_set_item"]
    /\ UNCHANGED <<enabled, sample_rate, experiments, now, last>>

\* line 229: self._user_assignments[user_id][experiment_id] = variant.name
gv_set_item(p) ==
    /\ procs[p].pc = "gv_set_item"
    /\ user_assignments' =
           StoreAssignment(user_assignments, procs[p].user, procs[p].exp,
                           experiment_of(p).variants[procs[p].variant].name)
    /\ procs' = [procs EXCEPT ![p].pc = "gv_impression"]
    /\ UNCHANGED <<enabled, sample_rate, experiments, now, last>>

\* lines 232-234: variant.impressions += 1 on the object the thread holds
gv_impression(p) ==
    /\ procs[p].pc = "gv_impression"
    /\ LET e == procs[p].exp
           i == procs[p].variant
           name == experiment_of(p).variants[i].name
       IN  IF e \in DOMAIN experiments
           THEN /\ experiments' = record_impression(experiments, e, i)
                /\ ThreadReturn(p, name)
           ELSE /\ LET q == CHOOSE q \in Procs :
                                 procs[q].removed # << >> /\ procs[q].exp = e
                   IN  procs' = [k \in Procs |->
                           LET t == IF k = q
                                    THEN [procs[k] EXCEPT
                                             !.removed[1].variants[i].impressions = @ + 1]
                                    ELSE procs[k]
                           IN  IF k = p
                               THEN [t EXCEPT !.pc = "done", !.ret = name, !.orphan = TRUE]
                               ELSE t]
                /\ UNCHANGED experiments
    /\ UNCHANGED <<enabled, sample_rate, user_assignments, now, last>>

\* line 437: if experiment_id in self._experiments
de_registered(p) ==
    /\ procs[p].pc = "de_registered"
    /\ IF procs[p].exp \in DOMAIN experiments
       THEN procs' = [procs EXCEPT ![p].pc = "de_del"]
       ELSE ThreadReturn(p, "False")
    /\ UNCHANGED <<enabled, sample_rate, experiments, user_assignments, now, last>>

\* line 438: del self._experiments[experiment_id]
de_del(p) ==
    /\ procs[p].pc = "de_del"
    /\ LET e == procs[p].exp
       IN  IF e \in DOMAIN experiments
           THEN /\ experiments' = [k \in (DOMAIN experiments) \ {e} |-> experiments[k]]
                /\ procs' = [procs EXCEPT ![p].pc = "de_values",
                                          ![p].removed = << experiments[e] >>]
           ELSE /\ ThreadReturn(p, "KeyError")
                /\ UNCHANGED experiments
    /\ UNCHANGED <<enabled, sample_rate, user_assignments, now, last>>

\* line 441: the iterator over self._user_assignments.values()
de_values(p) ==
    /\ procs[p].pc = "de_values"
    /\ procs' = [procs EXCEPT ![p].pc = "de_pop",
                              ![p].todo = DOMAIN user_assignments,
                              ![p].size = Cardinality(DOMAIN user_assignments)]
    /\ UNCHANGED <<enabled, sample_rate, experiments, user_assignments, now, last>>

\* lines 441-444: the iterator's next (RuntimeError when the dict has
\* changed size), user_assignments.pop(experiment_id, None), return True
de_pop(p) ==
    /\ procs[p].pc = "de_pop"
    /\ IF Cardinality(DOMAIN user_assignments) # procs[p].size
       THEN /\ ThreadReturn(p, "RuntimeError")
            /\ UNCHANGED user_assignments
       ELSE IF procs[p].todo = {}
       THEN /\ ThreadReturn(p, "True")
            /\ UNCHANGED user_assignments
       ELSE \E u \in procs[p].todo :
               /\ user_assignments' =
                      [user_assignments EXCEPT
                          ![u] = [k \in (DOMAIN user_assignments[u]) \ {procs[p].exp} |->
                                     user_assignments[u][k]]]
               /\ procs' = [procs EXCEPT ![p].todo = @ \ {u}]
    /\ UNCHANGED <<enabled, sample_rate, experiments, now, last>>

\* e1 was created and started and the users of S were assigned, one call
\* at a time; then the concurrent callers arrive.
InitDelete ==
    /\ enabled = TRUE
    /\ sample_rate = Grid
    /\ now = 2
    /\ last = NoCall
    /\ procs = [p \in Procs |-> IdleThread]
    /\ \E variants \in VariantLists, S \in SUBSET Users :
          LET pre == AssignAll(
                  PutExperiment(<< >>, "e1", Started(NewExperiment("e1", variants, 1), 2)),
                  << >>, S)
          IN  /\ experiments = pre.experiments
              /\ user_assignments = pre.user_assignments

NextDelete ==
    \E p \in Procs :
        \/ \E e \in ExpIds, u \in Users : thread_call(p, "get_variant", e, u)
        \/ \E e \in ExpIds : thread_call(p, "delete_experiment", e, "")
        \/ gv_registered(p)
        \/ gv_experiment(p)
        \/ gv_assigned(p)
        \/ gv_stored_name(p)
        \/ gv_assign(p)
        \/ gv_new_user(p)
        \/ gv_set_item(p)
        \/ gv_impression(p)
        \/ de_registered(p)
        \/ de_del(p)
        \/ de_values(p)
        \/ de_pop(p)

SpecDelete == InitDelete /\ [][NextDelete]_vars

----------------------------------------------------------------------------
\* _assign_variant applied to every bucket value.  e1 was created with one
\* of the variant lists and started; procs holds the one call under way:
\* its bucket hash_value % 10000 and, when it is done, the index of the
\* Variant returned (ret its name, or the exception raised).

\* Variant lists with a weight of 0 (VariantConfig allows 0 <= weight <= 1)
ZeroShareLists ==
    { << [name |-> "a", weight |-> 0, config |-> "c0"],
         [name |-> "b", weight |-> 1, config |-> "c1"] >>,
      << [name |-> "a", weight |-> 1, config |-> "c0"],
         [name |-> "b", weight |-> 0, config |-> "c1"] >>,
      << [name |-> "a", weight |-> 1, config |-> "c0"],
         [name |-> "b", weight |-> 0, config |-> "c1"],
         [name |-> "c", weight |-> 1, config |-> "c2"] >> }

\* the lists create_experiment registers (it raises on a zero weight sum)
AssignLists ==
    {l \in VariantLists \cup DegenerateLists \cup ZeroShareLists :
        Len(l) = 0 \/ SumWeights(l, Len(l)) # 0}

InitAssign ==
    /\ enabled = TRUE
    /\ sample_rate = Grid
    /\ user_assignments = << >>
    /\ now = 2
    /\ last = NoCall
    /\ \E variants \in AssignLists :
          experiments = PutExperiment(<< >>, "e1",
                            Started(NewExperiment("e1", variants, 1), 2))
    /\ \E bucket \in 0..(HashBuckets - 1) :
          procs = << [pc |-> "called", bucket |-> bucket, variant |-> 0, ret |-> ""] >>

\* lines 245-253 for the call under way
assign_variant_call(e) ==
    /\ procs[1].pc = "called"
    /\ LET variants == experiments[e].variants
           i == variant_at_bucket(variants, procs[1].bucket)
       IN  procs' = IF Len(variants) = 0
                    THEN \* return experiment.variants[-1] raises IndexError
                         [procs EXCEPT ![1].pc = "done", ![1].ret = "IndexError"]
                    ELSE [procs EXCEPT ![1].pc = "done", ![1].variant = i,
                                       ![1].ret = variants[i].name]
    /\ UNCHANGED <<enabled, sample_rate, experiments, user_assignments, now, last>>

NextAssign == \E e \in ExpIds : assign_variant_call(e)

SpecAssign == InitAssign /\ [][NextAssign]_vars

----------------------------------------------------------------------------
\* get_experiment_results on snapshots of the counters.  The experiment e1
\* [control 0.5, treatment 0.5] was created and started; its counters stand
\* where a run of get_variant and record_conversion calls has left them
\* (conversions above impressions included: record_conversion counts every
\* call).  get_experiment_results reads the experiment only, so the
\* assignments behind the counters are not kept.

ControlTreatment ==
    << [name |-> "control", weight |-> 1, config |-> "c0"],
       [name |-> "treatment", weight |-> 1, config |-> "c1"] >>

\* the impressions a variant stands at
ImpressionCounts == {0, 50, 99, 100, 400, 500, 600, 900}

\* the conversions a variant with n impressions stands at
ConversionCounts(n) ==
    {0, 5, 6, n \div 10, n \div 10 + 2, n \div 5, n, n + n \div 2}

\* the target_sample_size values e1 is created with
TargetSizes == {200, DefaultTargetSampleSize}

\* experiment with the counters of variant i set to counts[i]
WithCounters(experiment, counts) ==
    [experiment EXCEPT !.variants =
        [i \in 1..Len(experiment.variants) |->
            [experiment.variants[i] EXCEPT !.impressions = counts[i].n,
                                           !.conversions = counts[i].c]]]

\* a third variant next to control and treatment
ControlTreatmentThird ==
    ControlTreatment \o << [name |-> "third", weight |-> 1, config |-> "c2"] >>

\* the counters the variants of the three-variant experiment stand at
ThreeWayImpressions == {100, 500}
ThreeWayConversions(n) == {0, n \div 10, n \div 5}

\* counters at high conversion rates, where a lift below 5% is significant
HighRateCounts ==
    { << [n |-> 900, c |-> 855], [n |-> 900, c |-> 897] >>,
      << [n |-> 900, c |-> 855], [n |-> 900, c |-> 899] >>,
      << [n |-> 900, c |-> 897], [n |-> 900, c |-> 855] >> }

\* the registry in which e1, created from variants with the target size
\* target and started, has the counters counts
Snapshot(variants, target, counts) ==
    PutExperiment(<< >>, "e1",
        WithCounters(
            [Started(NewExperiment("e1", variants, 1), 2)
                EXCEPT !.target_sample_size = target],
            counts))

InitResults ==
    /\ enabled = TRUE
    /\ sample_rate = Grid
    /\ user_assignments = << >>
    /\ now = 2
    /\ last = NoCall
    /\ procs = << >>
    /\ \E target \in TargetSizes :
          \/ \E n1 \in ImpressionCounts, n2 \in ImpressionCounts :
                \E c1 \in ConversionCounts(n1), c2 \in ConversionCounts(n2) :
                    experiments = Snapshot(ControlTreatment, target,
                                          << [n |-> n1, c |-> c1], [n |-> n2, c |-> c2] >>)
          \/ \E counts \in HighRateCounts :
                experiments = Snapshot(ControlTreatment, target, counts)
          \/ \E n1 \in ThreeWayImpressions, n2 \in ThreeWayImpressions,
                 n3 \in ThreeWayImpressions :
                \E c1 \in ThreeWayConversions(n1), c2 \in ThreeWayConversions(n2),
                   c3 \in ThreeWayConversions(n3) :
                    experiments = Snapshot(ControlTreatmentThird, target,
                                          << [n |-> n1, c |-> c1], [n |-> n2, c |-> c2],
                                             [n |-> n3, c |-> c3] >>)

NextResults ==
    \E e \in ExpIds \cup UnknownIds : get_experiment_results(e)

SpecResults == InitResults /\ [][NextResults]_vars

----------------------------------------------------------------------------
\* Properties

Status(e) == experiments[e].status
Running(e) == Registered(e) /\ Status(e) = "running"

\* the step completes a call op(e, u)
Completes(op, e, u) == last'.op = op /\ last'.exp = e /\ last'.user = u

\* the calls before and after the step are both get_variant(e, u), made
\* while the service is enabled and e is Running
TwoGetVariantCalls(e, u) ==
    /\ enabled
    /\ Running(e)
    /\ last.op = "get_variant" /\ last.exp = e /\ last.user = u
    /\ Completes("get_variant", e, u)

\* C1: two get_variant(E, S) calls on a Running experiment E with nothing
\* between them return the same variant name, for every sample_rate, also
\* when the first of the two is made before (S, E) has an assignment.
C1_Determinism ==
    [][\A e \in ExpIds, u \in Users :
          TwoGetVariantCalls(e, u) => last'.ret = last.ret]_vars

\* C2: a get_variant(E, S) call on a Running experiment E raises the
\* impressions counter of the variant S receives by exactly 1 when it is
\* the first call for (S, E) and by 0 when it is a later one (so N calls
\* raise it by 1 in total), and changes no other impressions counter.
C2_ImpressionOnce ==
    [][\A e \in ExpIds, u \in Users :
          (enabled /\ Running(e) /\ Completes("get_variant", e, u)) =>
              LET old == experiments[e].variants
                  new == experiments'[e].variants
                  i == VariantIndex(old, last'.ret)
                  first == ~HasAssignment(user_assignments, u, e)
              IN  /\ i # 0
                  /\ new[i].impressions = old[i].impressions + (IF first THEN 1 ELSE 0)
                  /\ \A j \in 1..Len(old) :
                        j # i => new[j].impressions = old[j].impressions]_vars

\* C5: the sampling gate decides by (S, E) alone: once a get_variant(E, S)
\* call on a Running experiment was excluded by the gate, the next
\* get_variant(E, S) call is excluded too.
C5_GateStable ==
    [][\A e \in ExpIds, u \in Users :
          (TwoGetVariantCalls(e, u) /\ last.gate = "excluded") =>
              last'.gate = "excluded"]_vars

\* C6: record_conversion(E, S) for a registered E and a subject S with no
\* stored assignment in E returns False and changes no counter and no
\* assignment.
C6_ConversionRequiresAssignment ==
    [][\A e \in ExpIds, u \in Users :
          (/\ Completes("record_conversion", e, u)
           /\ Registered(e)
           /\ ~HasAssignment(user_assignments, u, e)) =>
              /\ last'.ret = "False"
              /\ experiments' = experiments
              /\ user_assignments' = user_assignments]_vars

C6_Witness ==
    /\ last.op = "record_conversion"
    /\ last.ret = "False"
    /\ Running(last.exp)
    /\ ~HasAssignment(user_assignments, last.user, last.exp)
    /\ \E u \in Users : HasAssignment(user_assignments, u, last.exp)

\* C7: get_variant(E, S) on an unknown E or on an E that is not Running
\* returns the default variant with the empty config and changes no
\* experiment, counter or assignment, also when S has a stored assignment;
\* a record_conversion(E, S) that follows such a call for a subject with no
\* assignment returns False.
C7_NotRunningDefault ==
    [][\A e \in ExpIds, u \in Users :
          /\ (Completes("get_variant", e, u) /\ ~Running(e)) =>
                 /\ last'.ret = default_variant
                 /\ last'.config = EmptyConfig
                 /\ experiments' = experiments
                 /\ user_assignments' = user_assignments
          /\ (/\ last.op = "get_variant" /\ last.exp = e /\ last.user = u
              /\ ~Running(e)
              /\ ~HasAssignment(user_assignments, u, e)
              /\ Completes("record_conversion", e, u)) =>
                 last'.ret = "False"]_vars

\* get_variant on a Completed experiment for a subject that holds an
\* assignment to a variant other than the default
C7_Witness ==
    /\ last.op = "get_variant"
    /\ enabled
    /\ Registered(last.exp)
    /\ Status(last.exp) = "completed"
    /\ HasAssignment(user_assignments, last.user, last.exp)
    /\ user_assignments[last.user][last.exp] # default_variant
    /\ last.ret = default_variant

\* the step completes a start call (service method or HTTP handler) on e
CompletesStart(e) ==
    /\ last'.op \in {"start_experiment", "api_start_experiment"}
    /\ last'.exp = e

\* C8: Completed and Cancelled are terminal: no start_experiment or
\* stop_experiment call changes the status of an experiment that is
\* Completed or Cancelled.
C8_TerminalStatus ==
    [][\A e \in ExpIds :
          (/\ Registered(e)
           /\ Status(e) \in {"completed", "cancelled"}
           /\ (CompletesStart(e) \/ Completes("stop_experiment", e, ""))) =>
              experiments'[e].status = experiments[e].status]_vars

\* C9: started_at is write-once: no start_experiment call changes the
\* started_at of an experiment that has one.
C9_StartedAtWriteOnce ==
    [][\A e \in ExpIds :
          (/\ Registered(e)
           /\ experiments[e].started_at # None
           /\ CompletesStart(e)) =>
              experiments'[e].started_at = experiments[e].started_at]_vars

\* C10: stop_experiment on a registered experiment that is Draft, Running
\* or Paused returns True, sets status Completed and ended_at (to the time
\* of the call), and changes no counter, no other field and no assignment.
C10_StopCompletes ==
    [][\A e \in ExpIds :
          (/\ Completes("stop_experiment", e, "")
           /\ Registered(e)
           /\ Status(e) \in {"draft", "running", "paused"}) =>
              /\ last'.ret = "True"
              /\ experiments'[e].ended_at = now'
              /\ experiments'[e].ended_at # None
              /\ experiments' = [experiments EXCEPT
                     ![e].status = "completed",
                     ![e].ended_at = experiments'[e].ended_at]
              /\ user_assignments' = user_assignments]_vars

\* a Running experiment with impressions and conversions was stopped
C10_Witness ==
    /\ last.op = "stop_experiment"
    /\ last.ret = "True"
    /\ Registered(last.exp)
    /\ Status(last.exp) = "completed"
    /\ experiments[last.exp].started_at # None
    /\ experiments[last.exp].ended_at = now
    /\ \E i \in 1..Len(experiments[last.exp].variants) :
          /\ experiments[last.exp].variants[i].impressions > 0
          /\ experiments[last.exp].variants[i].conversions > 0

----------------------------------------------------------------------------
\* Properties of the concurrent callers (SpecConc)

AllDone == \A p \in Procs : procs[p].pc = "done"

\* the callers that stored an assignment for (u, e)
Creators(e, u) ==
    {p \in Procs : procs[p].created /\ procs[p].exp = e /\ procs[p].user = u}

\* the subjects whose stored assignment in e is the variant named n
AssignedTo(e, n) ==
    {u \in Users : HasAssignment(user_assignments, u, e) /\ user_assignments[u][e] = n}

\* C3: of the concurrent get_variant(E, S) calls for one (E, S) at most one
\* creates the assignment, and when all callers have returned the variant's
\* impressions counter has counted S exactly once.
C3_AtomicGetOrAssign ==
    \A e \in ExpIds, u \in Users :
        /\ Cardinality(Creators(e, u)) <= 1
        /\ (/\ AllDone
            /\ \A p \in Procs : /\ procs[p].op = "get_variant"
                                 /\ procs[p].exp = e
                                 /\ procs[p].user = u) =>
               \A i \in 1..Len(experiments[e].variants) :
                   experiments[e].variants[i].impressions =
                       Cardinality(AssignedTo(e, experiments[e].variants[i].name))

\* C4: when all callers have returned, each variant's conversions counter
\* has counted every record_conversion call that returned True for it, and
\* its impressions counter every assignment that was stored for it (those
\* that existed before the callers arrived and those the callers stored).
C4_NoLostIncrement ==
    AllDone =>
        \A e \in ExpIds :
            \A i \in 1..Len(experiments[e].variants) :
                LET v == experiments[e].variants[i]
                    converted == {p \in Procs : /\ procs[p].op = "record_conversion"
                                                /\ procs[p].exp = e
                                                /\ procs[p].ret = "True"
                                                /\ procs[p].variant = i}
                    stored == {p \in Procs : /\ procs[p].created
                                             /\ procs[p].exp = e
                                             /\ procs[p].variant = i}
                    before == {u \in AssignedTo(e, v.name) : Creators(e, u) = {}}
                IN  /\ v.conversions = Cardinality(converted)
                    /\ v.impressions = Cardinality(before) + Cardinality(stored)

----------------------------------------------------------------------------
\* Properties of create_experiment and delete_experiment (Spec)

\* fewer than 2 variants, or a variant with a negative weight
InvalidConfiguration(variants) ==
    \/ Len(variants) < 2
    \/ \E i \in 1..Len(variants) : variants[i].weight < 0

\* C11: create_experiment called with fewer than 2 variants, or with a
\* variant whose weight is negative, fails with InvalidConfiguration and
\* registers nothing: registry, assignments and counters stay as they were.
C11_InvalidConfigurationRejected ==
    [][\A e \in ExpIds :
          (/\ Completes("create_experiment", e, "")
           /\ InvalidConfiguration(last'.variants)) =>
              /\ last'.ret = "InvalidConfiguration"
              /\ experiments' = experiments
              /\ user_assignments' = user_assignments]_vars

\* the sum of the stored weights of a variant list, as [num, den]
WeightSum(variants) ==
    IF Len(variants) = 0 THEN [num |-> 0, den |-> 1]
    ELSE [num |-> CumWeight(variants, Len(variants)), den |-> variants[1].weight.den]

\* C12: in every state, the stored weights of every registered experiment
\* are the input weights over their sum (one common denominator, which is
\* not zero) and sum to 1.
C12_WeightConservation ==
    \A e \in DOMAIN experiments :
        LET variants == experiments[e].variants
        IN  /\ \A i \in 1..Len(variants) :
                  /\ variants[i].weight.den # 0
                  /\ variants[i].weight.den = variants[1].weight.den
            /\ WeightSum(variants).num = WeightSum(variants).den

\* the call before the step is a delete_experiment(e) that returned True
Deleted(e) ==
    last.op = "delete_experiment" /\ last.exp = e /\ last.ret = "True"

\* C13: delete_experiment(E) on a registered E succeeds whatever the status
\* of E; after it E is not registered and no subject has a stored
\* assignment for E, a record_conversion(E, S) that follows returns False
\* and a get_variant(E, S) that follows returns the default variant.
C13_DeleteCascades ==
    [][\A e \in ExpIds, u \in Users :
          /\ (Completes("delete_experiment", e, "") /\ Registered(e)) =>
                 /\ last'.ret = "True"
                 /\ e \notin DOMAIN experiments'
                 /\ \A s \in DOMAIN user_assignments' :
                        ~HasAssignment(user_assignments', s, e)
          /\ (Deleted(e) /\ Completes("record_conversion", e, u)) =>
                 last'.ret = "False"
          /\ (Deleted(e) /\ Completes("get_variant", e, u)) =>
                 /\ last'.ret = default_variant
                 /\ last'.config = EmptyConfig]_vars

\* an experiment that had been started and had assignments was deleted
C13_Witness ==
    /\ last.op = "delete_experiment"
    /\ last.ret = "True"
    /\ ~Registered(last.exp)
    /\ now >= 2
    /\ \E u \in Users : u \in DOMAIN user_assignments

\* the call before the step is a record_conversion that found its
\* experiment registered and its subject without an assignment, and returned
\* the outcome last.ret for it
NotAssignedOutcome ==
    /\ last.op = "record_conversion"
    /\ Registered(last.exp)
    /\ ~HasAssignment(user_assignments, last.user, last.exp)

\* C16: start_experiment, stop_experiment, delete_experiment,
\* record_conversion and get_experiment_results called with an id that is
\* not registered report not-found (False, or None for the results) and
\* change no experiment, assignment or counter; the outcome of
\* record_conversion differs from the one it gives a subject without an
\* assignment.
C16_UnknownIdNotFound ==
    [][\A e \in ExpIds \cup UnknownIds :
          ~Registered(e) =>
              /\ \A op \in {"start_experiment", "stop_experiment", "delete_experiment"} :
                     Completes(op, e, "") =>
                         /\ last'.ret = "False"
                         /\ experiments' = experiments
                         /\ user_assignments' = user_assignments
              /\ Completes("get_experiment_results", e, "") =>
                     /\ last'.ret = "None"
                     /\ experiments' = experiments
                     /\ user_assignments' = user_assignments
              /\ \A u \in Users :
                     Completes("record_conversion", e, u) =>
                         /\ experiments' = experiments
                         /\ user_assignments' = user_assignments
                         /\ NotAssignedOutcome => last'.ret # last.ret]_vars

\* C18: get_variant never fails: for every experiment id (unknown ids
\* included), subject and state it returns a variant name with its config,
\* and that is the default variant with the empty config when the service
\* is disabled, the experiment is unknown or not Running, or the sampling
\* gate excludes the subject.
C18_GetVariantNeverFails ==
    [][\A e \in ExpIds \cup UnknownIds, u \in Users :
          Completes("get_variant", e, u) =>
              /\ last'.ret # "IndexError"
              /\ (~enabled \/ ~Running(e) \/ last'.gate = "excluded") =>
                     /\ last'.ret = default_variant
                     /\ last'.config = EmptyConfig]_vars

\* the operations of C19
CounterOps ==
    {"create_experiment", "start_experiment", "api_start_experiment",
     "stop_experiment", "get_variant", "record_conversion"}

\* C19: while an experiment id stays registered, no create, start, stop,
\* get_variant or record_conversion call lowers the impressions or the
\* conversions counter of one of its variants, and no counter is negative.
C19_CountersMonotonic ==
    [][\A e \in ExpIds :
          (Registered(e) /\ e \in DOMAIN experiments' /\ last'.op \in CounterOps) =>
              LET old == experiments[e].variants
                  new == experiments'[e].variants
              IN  \A i \in (1..Len(old)) \cap (1..Len(new)) :
                      /\ new[i].impressions >= old[i].impressions
                      /\ new[i].conversions >= old[i].conversions
                      /\ old[i].impressions >= 0
                      /\ old[i].conversions >= 0]_vars

\* C20: in every reachable state every variant of every experiment has
\* conversions <= impressions.
C20_ConversionsWithinImpressions ==
    \A e \in DOMAIN experiments :
        \A i \in 1..Len(experiments[e].variants) :
            experiments[e].variants[i].conversions
                <= experiments[e].variants[i].impressions

----------------------------------------------------------------------------
\* Properties of get_experiment_results (SpecResults)

\* C14: when the control variant or the variant compared against it has
\* fewer than 100 impressions, the result has is_significant = false and
\* confidence 0, whatever the conversion counts, and names no non-control
\* variant winner.
C14_SignificanceFloor ==
    [][\A e \in ExpIds :
          (/\ Completes("get_experiment_results", e, "")
           /\ Registered(e)
           /\ last'.ret = "ExperimentResult"
           /\ \/ experiments[e].variants[1].impressions < 100
              \/ experiments[e].variants[last'.result.compared].impressions < 100) =>
              /\ ~last'.result.is_significant
              /\ last'.result.confidence = 0
              /\ last'.result.winner \in {"None", experiments[e].variants[1].name}]_vars

\* the result for control 50 / 5 against treatment 50 / 6
C14_Witness ==
    /\ last.op = "get_experiment_results"
    /\ last.ret = "ExperimentResult"
    /\ Registered(last.exp)
    /\ experiments[last.exp].variants[1].impressions = 50
    /\ experiments[last.exp].variants[1].conversions = 5
    /\ experiments[last.exp].variants[2].impressions = 50
    /\ experiments[last.exp].variants[2].conversions = 6
    /\ last.result.compared = 2
    /\ ~last.result.is_significant

\* e1 = [control 0.5, treatment 0.5] is Running with 1,000 impressions,
\* each arm has at least 100, control has converted at 10% and treatment
\* at 20%
Scenario1000(e) ==
    /\ Running(e)
    /\ Len(experiments[e].variants) = 2
    /\ LET control == experiments[e].variants[1]
           treatment == experiments[e].variants[2]
       IN  /\ control.name = "control" /\ treatment.name = "treatment"
           /\ control.weight = [num |-> 1, den |-> 2]
           /\ treatment.weight = [num |-> 1, den |-> 2]
           /\ control.impressions + treatment.impressions = 1000
           /\ control.impressions >= 100 /\ treatment.impressions >= 100
           /\ control.conversions * 10 = control.impressions
           /\ treatment.conversions * 5 = treatment.impressions

\* C15: in the scenario of 1,000 subjects with control converting at 10%
\* and treatment at 20%, get_experiment_results returns winner = treatment,
\* is_significant = true and a lift of 100%.
C15_ScenarioWinner ==
    [][\A e \in ExpIds :
          (Completes("get_experiment_results", e, "") /\ Scenario1000(e)) =>
              /\ last'.ret = "ExperimentResult"
              /\ last'.result.winner = "treatment"
              /\ last'.result.is_significant
              /\ last'.result.lift = [num |-> 100, den |-> 1]]_vars

\* the result of the scenario at its most uneven split (900 against 100)
C15_Witness ==
    /\ last.op = "get_experiment_results"
    /\ Registered(last.exp)
    /\ Scenario1000(last.exp)
    /\ experiments[last.exp].variants[1].impressions = 900
    /\ last.result.winner = "treatment"

\* C17: get_experiment_results on a registered experiment returns a result
\* for every combination of counters, all counters zero and a control with
\* zero conversions included, and with fewer than 100 impressions in an arm
\* that result has is_significant = false.
C17_ResultsNeverFail ==
    [][\A e \in ExpIds :
          (Completes("get_experiment_results", e, "") /\ Registered(e)) =>
              /\ last'.ret = "ExperimentResult"
              /\ (\E i \in 1..Len(experiments[e].variants) :
                      experiments[e].variants[i].impressions < 100) =>
                     ~last'.result.is_significant]_vars

\* the step completes a get_experiment_results(e) call on a registered
\* experiment that returned a result
ReturnsResult(e) ==
    /\ Completes("get_experiment_results", e, "")
    /\ Registered(e)
    /\ last'.ret = "ExperimentResult"

\* x < y for rationals
Less(x, y) == FracLess(x.num, x.den, y.num, y.den)

\* i is the non-control variant with the highest lift in the per-variant
\* breakdown rows, the earliest one when several tie
HighestLift(rows, i) ==
    /\ i \in 2..Len(rows)
    /\ \A j \in 2..Len(rows) : ~Less(rows[i].lift, rows[j].lift)
    /\ \A j \in 2..(i - 1) : Less(rows[j].lift, rows[i].lift)

\* C22: the variant get_experiment_results compares against control, and
\* whose lift is the result's lift, is the non-control variant with the
\* highest lift, the earliest in list order on a tie, also when every
\* non-control lift is zero or negative.
C22_BestNonControl ==
    [][\A e \in ExpIds :
          (ReturnsResult(e) /\ Len(experiments[e].variants) >= 2) =>
              \E i \in 2..Len(experiments[e].variants) :
                  /\ HighestLift(last'.result.variants, i)
                  /\ last'.result.compared = i
                  /\ last'.result.lift = last'.result.variants[i].lift]_vars

\* C23: the winner is the best variant exactly when the z-test is
\* significant and the best lift is above 5; otherwise it is the control
\* exactly when total impressions >= target_sample_size and the best lift
\* is <= 0; otherwise there is none.  So a non-control winner needs no
\* reached target, and a significant lift of at most 5 names none.
C23_DecisionRule ==
    [][\A e \in ExpIds :
          ReturnsResult(e) =>
              LET r == last'.result
                  x == experiments[e]
                  ships == r.is_significant /\ r.lift.num > 5 * r.lift.den
                  keeps == total_impressions(x) >= x.target_sample_size /\ r.lift.num <= 0
              IN  /\ ships =>
                         /\ HighestLift(r.variants, r.compared)
                         /\ r.winner = x.variants[r.compared].name
                  /\ (~ships /\ keeps) => r.winner = x.variants[1].name
                  /\ (~ships /\ ~keeps) => r.winner = "None"]_vars

\* a significant lift of at most 5 with the target reached: no winner
C23_Witness ==
    /\ last.op = "get_experiment_results"
    /\ last.ret = "ExperimentResult"
    /\ last.result.is_significant
    /\ last.result.lift.num > 0
    /\ last.result.lift.num <= 5 * last.result.lift.den
    /\ last.result.winner = "None"

\* C24 as stated: whenever the result names no winner, the recommendation
\* states the impressions still needed, target_sample_size minus total
\* impressions, also when the target is already reached.
C24_NeedMoreAlways ==
    [][\A e \in ExpIds :
          (ReturnsResult(e) /\ last'.result.winner = "None") =>
              /\ last'.result.recommendation.kind = "need more impressions"
              /\ last'.result.recommendation.n =
                     experiments[e].target_sample_size - total_impressions(experiments[e])]_vars

\* C24 amended: when the result names no winner and the target is not
\* reached, the recommendation states target_sample_size minus total
\* impressions; when the target is reached it is the general advice to
\* continue collecting data, with no number.
C24_NeedMoreBelowTarget ==
    [][\A e \in ExpIds :
          (ReturnsResult(e) /\ last'.result.winner = "None") =>
              LET x == experiments[e]
                  rec == last'.result.recommendation
              IN  IF total_impressions(x) < x.target_sample_size
                  THEN /\ rec.kind = "need more impressions"
                       /\ rec.n = x.target_sample_size - total_impressions(x)
                       /\ rec.n > 0
                  ELSE rec.kind = "continue collecting"]_vars

\* no winner below the target, with a number of impressions still needed
C24_Witness ==
    /\ last.op = "get_experiment_results"
    /\ last.ret = "ExperimentResult"
    /\ last.result.winner = "None"
    /\ last.result.recommendation.kind = "need more impressions"
    /\ last.result.recommendation.n = 1000 - 199
    /\ total_impressions(experiments[last.exp]) = 199

\* C25: get_experiment_results does not name the control winner, with the
\* recommendation to keep it, when a non-control variant has a strictly
\* higher conversion rate than the control.
C25_NoControlWinnerWhenBeaten ==
    [][\A e \in ExpIds :
          (/\ ReturnsResult(e)
           /\ \E i \in 2..Len(last'.result.variants) :
                  Less(last'.result.variants[1].conversion_rate,
                       last'.result.variants[i].conversion_rate)) =>
              ~(/\ last'.result.winner = experiments[e].variants[1].name
                /\ last'.result.recommendation.kind = "keep control")]_vars

-----------------------------------------------------------------------------
\* Properties of the registry, the assignments and the counters (Spec)

\* C26: in every state, for every registered experiment and each of its
\* variants, the impressions counter equals the number of subjects whose
\* stored assignment for that experiment is that variant.
C26_ImpressionsCountAssignments ==
    \A e \in DOMAIN experiments :
        \A i \in 1..Len(experiments[e].variants) :
            experiments[e].variants[i].impressions =
                Cardinality(AssignedTo(e, experiments[e].variants[i].name))

\* C27: a stored assignment (S, E) -> V is kept unchanged by every call
\* other than delete_experiment(E), and V names a variant of E whenever E
\* is registered.
C27_AssignmentImmutable ==
    [][\A e \in ExpIds, u \in Users :
          (/\ HasAssignment(user_assignments, u, e)
           /\ ~(last'.op = "delete_experiment" /\ last'.exp = e)) =>
              /\ HasAssignment(user_assignments', u, e)
              /\ user_assignments'[u][e] = user_assignments[u][e]
              /\ e \in DOMAIN experiments' =>
                     \E i \in 1..Len(experiments'[e].variants) :
                         experiments'[e].variants[i].name = user_assignments'[u][e]]_vars

\* C28: create_experiment with an id that is already registered is
\* rejected and leaves the registered experiment (definition, status,
\* counters) and the assignments unchanged.
C28_UniqueIds ==
    [][\A e \in ExpIds :
          (Registered(e) /\ Completes("create_experiment", e, "")) =>
              /\ last'.ret # "Experiment"
              /\ experiments' = experiments
              /\ user_assignments' = user_assignments]_vars

\* C29: while an experiment stays Completed, no get_variant or
\* record_conversion call changes the impressions or conversions counter
\* of one of its variants.
C29_CompletedIsFinal ==
    [][\A e \in ExpIds :
          (/\ Registered(e) /\ Status(e) = "completed"
           /\ e \in DOMAIN experiments' /\ experiments'[e].status = "completed"
           /\ last'.op \in {"get_variant", "record_conversion"}) =>
              \A i \in 1..Len(experiments[e].variants) :
                  /\ experiments'[e].variants[i].impressions =
                         experiments[e].variants[i].impressions
                  /\ experiments'[e].variants[i].conversions =
                         experiments[e].variants[i].conversions]_vars

-----------------------------------------------------------------------------
\* Properties of get_variant against delete_experiment (SpecDelete)

\* a delete_experiment(e) call has completed and no call on e is under way
DeleteSettled(e) ==
    /\ \E p \in Procs :
          procs[p].op = "delete_experiment" /\ procs[p].exp = e /\ procs[p].pc = "done"
    /\ \A p \in Procs : procs[p].exp = e => procs[p].pc = "done"

\* C30: once a delete_experiment(E) and the get_variant(E, S) calls that
\* ran beside it have completed, no subject has a stored assignment for E
\* and no caller has counted an impression on an experiment that was no
\* longer registered.
C30_DeleteAtomic ==
    \A e \in ExpIds :
        DeleteSettled(e) =>
            /\ \A u \in Users : ~HasAssignment(user_assignments, u, e)
            /\ \A p \in Procs : ~procs[p].orphan

-----------------------------------------------------------------------------
\* Properties of stored assignments and conversions (Spec)

\* C31: while E is Running and an assignment (S, E) -> V is stored, every
\* get_variant(E, S) returns V with V's config, does not reach the sampling
\* gate and changes no counter and no assignment.
C31_StoredVariantReturned ==
    [][\A e \in ExpIds, u \in Users :
          (/\ Running(e)
           /\ HasAssignment(user_assignments, u, e)
           /\ Completes("get_variant", e, u)) =>
              /\ last'.ret = user_assignments[u][e]
              /\ \E i \in 1..Len(experiments[e].variants) :
                    /\ experiments[e].variants[i].name = user_assignments[u][e]
                    /\ last'.config = experiments[e].variants[i].config
              /\ last'.gate = "none"
              /\ experiments' = experiments
              /\ user_assignments' = user_assignments]_vars

\* C32: a record_conversion(E, S) that returns True adds exactly 1 to the
\* conversions counter of the variant stored for (S, E), the variant whose
\* impressions counter counted S's assignment (so it stands at 1 or more),
\* and changes no other counter, no assignment and no status; every further
\* call for the same subject adds 1 again.
C32_ConversionAddsOne ==
    [][\A e \in ExpIds \cup UnknownIds, u \in Users :
          (Completes("record_conversion", e, u) /\ last'.ret = "True") =>
              /\ Registered(e)
              /\ HasAssignment(user_assignments, u, e)
              /\ \E i \in 1..Len(experiments[e].variants) :
                    /\ experiments[e].variants[i].name = user_assignments[u][e]
                    /\ experiments[e].variants[i].impressions >= 1
                    /\ experiments' =
                           [experiments EXCEPT ![e].variants[i].conversions = @ + 1]
              /\ user_assignments' = user_assignments]_vars

-----------------------------------------------------------------------------
\* Properties of _assign_variant (SpecAssign)

\* the cumulative weight up to and including variant j is >= b / 10000
CumulativeReaches(variants, j, b) ==
    LET den == variants[j].weight.den
        cum == CumWeight(variants, j)
    IN  IF den > 0 THEN cum * HashBuckets >= b * den
                   ELSE cum * HashBuckets <= b * den

\* the call of _assign_variant has returned or raised
AssignDone == procs[1].pc = "done"

\* C33: for every variant list and every bucket value, _assign_variant
\* returns the first variant in list order whose cumulative weight is >= the
\* bucket value, and the last variant when no cumulative weight reaches it.
C33_FirstCumulativeBound ==
    \A e \in DOMAIN experiments :
        AssignDone =>
            LET variants == experiments[e].variants
                b == procs[1].bucket
                reached == {j \in 1..Len(variants) : CumulativeReaches(variants, j, b)}
            IN  /\ procs[1].variant \in 1..Len(variants)
                /\ procs[1].ret = variants[procs[1].variant].name
                /\ IF reached # {}
                   THEN /\ procs[1].variant \in reached
                        /\ \A j \in reached : procs[1].variant <= j
                   ELSE procs[1].variant = Len(variants)

\* C34: a variant whose normalized weight is 0 is never the one
\* _assign_variant returns, whatever the bucket value and wherever the
\* variant stands in the list.
C34_ZeroShareNeverReturned ==
    \A e \in DOMAIN experiments :
        (AssignDone /\ procs[1].variant # 0) =>
            experiments[e].variants[procs[1].variant].weight.num # 0

-----------------------------------------------------------------------------
\* Properties of the z-test and of the per-variant breakdown (SpecResults)

\* the variant get_experiment_results hands to the z-test beside the control
ComparedVariant(variants) ==
    variants[best_variant(variants, 1, [index |-> 1, lift |-> Frac(0, 1)]).index]

\* C35: when the control and the compared variant both have at least 100
\* impressions, the z-test reports not significant if the pooled proportion
\* is 0 or 1, and otherwise reports is_significant exactly when
\* z = |rate_b - rate_c| / sqrt(p (1 - p) (1/n_c + 1/n_b)) >= 1.96; control
\* compared with itself is not significant.
C35_ZTest ==
    [][\A e \in ExpIds :
          (/\ Completes("get_experiment_results", e, "")
           /\ Registered(e)
           /\ Len(experiments[e].variants) >= 1
           /\ experiments[e].variants[1].impressions >= 100
           /\ ComparedVariant(experiments[e].variants).impressions >= 100) =>
              LET c == experiments[e].variants[1]
                  b == ComparedVariant(experiments[e].variants)
                  conv == c.conversions + b.conversions
                  n == c.impressions + b.impressions
              IN  /\ last'.ret = "ExperimentResult"
                  /\ last'.result.is_significant =
                         IF conv = 0 \/ conv = n THEN FALSE
                         ELSE z_at_least(z_squared(c, b), 49, 25)
                  /\ b = c => ~last'.result.is_significant]_vars

\* conversions / impressions as the pair [num, den], 0 / 1 without impressions
RateOf(v) ==
    IF v.impressions = 0 THEN [num |-> 0, den |-> 1]
    ELSE [num |-> v.conversions, den |-> v.impressions]

\* C36: in the per-variant breakdown a variant with zero impressions has
\* conversion rate 0 (any other has conversions / impressions), every lift
\* is 0 when the control's conversion rate is 0, and otherwise the lift is
\* (rate - controlRate) / controlRate * 100, which is 0 for the control.
C36_Breakdown ==
    [][\A e \in ExpIds :
          ReturnsResult(e) =>
              LET variants == experiments[e].variants
                  rows == last'.result.variants
                  rc == RateOf(variants[1])
              IN  /\ Len(rows) = Len(variants)
                  /\ rows[1].lift.num = 0
                  /\ \A i \in 1..Len(variants) :
                        LET r == RateOf(variants[i])
                        IN  /\ rows[i].conversion_rate.num * r.den =
                                   r.num * rows[i].conversion_rate.den
                            /\ variants[i].impressions = 0 =>
                                   rows[i].conversion_rate.num = 0
                            /\ rows[i].lift =
                                   IF rc.num = 0 THEN Frac(0, 1)
                                   ELSE Frac((r.num * rc.den - rc.num * r.den) * 100,
                                             rc.num * r.den)]_vars

\* a control without impressions (rate 0) beside a variant that converts:
\* the variant's lift is reported as 0
C36_Witness ==
    /\ last.op = "get_experiment_results"
    /\ last.ret = "ExperimentResult"
    /\ last.result.variants[1].impressions = 0
    /\ last.result.variants[1].conversion_rate.num = 0
    /\ \E i \in 2..Len(last.result.variants) :
          /\ last.result.variants[i].conversion_rate.num > 0
          /\ last.result.variants[i].lift.num = 0

-----------------------------------------------------------------------------
\* Properties of the whole service (Spec)

\* C37: the variant stored on the first assignment of (S, E) is determined
\* by S, E and the ordered weights of E's variants alone: it is the first
\* variant whose cumulative weight reaches the bucket of (S, E), a value
\* among 0/10000 .. 9999/10000, whatever calls came before, whoever else is
\* assigned and whatever the counters are.
C37_AssignmentFunctionOfIds ==
    [][\A e \in ExpIds, u \in Users :
          (/\ ~HasAssignment(user_assignments, u, e)
           /\ HasAssignment(user_assignments', u, e)) =>
              LET variants == experiments[e].variants
                  b == hash_bucket(u, e)
              IN  /\ b \in 0..(HashBuckets - 1)
                  /\ \E i \in 1..Len(variants) :
                        /\ variants[i].name = user_assignments'[u][e]
                        /\ CumulativeReaches(variants, i, b)
                        /\ \A j \in 1..(i - 1) : ~CumulativeReaches(variants, j, b)]_vars

\* a first assignment made when another subject is assigned already and
\* counters have moved
C37_Witness ==
    /\ last.op = "get_variant"
    /\ last.gate = "included"
    /\ HasAssignment(user_assignments, last.user, last.exp)
    /\ \E u \in Users \ {last.user} : HasAssignment(user_assignments, u, last.exp)
    /\ \E i \in 1..Len(experiments[last.exp].variants) :
          experiments[last.exp].variants[i].conversions > 0

\* C38: in every state each registered experiment is Draft, Running or
\* Completed; no sequence of calls makes it Paused or Cancelled.
C38_ThreeStatuses ==
    \A e \in DOMAIN experiments :
        experiments[e].status \in {"draft", "running", "completed"}

\* an experiment stopped before it ever ran and then started: Running with
\* an ended_at and with a subject assigned
C38_Witness ==
    /\ Running("e1")
    /\ experiments["e1"].ended_at # None
    /\ \E u \in Users : HasAssignment(user_assignments, u, "e1")

\* the step completes one of the two reading calls
CompletesRead == last'.op \in {"get_experiment_results", "get_all_experiments"}

\* C39: get_experiment_results and get_all_experiments change no experiment
\* (status, timestamps, weights, counters) and no assignment, in any state,
\* and a call that follows the same call with no other call between them
\* returns what the first returned.
C39_ReadOnly ==
    [][CompletesRead =>
          /\ experiments' = experiments
          /\ user_assignments' = user_assignments
          /\ (last.op = last'.op /\ last.exp = last'.exp) =>
                 (last'.ret = last.ret /\ last'.result = last.result)]_vars

\* get_all_experiments has listed a stopped experiment with an assignment
\* and an impression, right after get_experiment_results read it
C39_Witness ==
    /\ last.op = "get_all_experiments"
    /\ Registered("e1")
    /\ Status("e1") = "completed"
    /\ last.result.summary["e1"].total_impressions > 0
    /\ \E u \in Users : HasAssignment(user_assignments, u, "e1")

====
